---- MODULE Spec2Model ----
(***************************************************************************)
(* Model of samcli/commands/sync/sync_context.py: the persisted sync state *)
(* (sync.toml), its TOML mapping, and the SyncContext life cycle under the *)
(* module-level lock.                                                      *)
(*                                                                         *)
(* Conventions.  A Python str that the code inspects character by          *)
(* character (a resource id) is a sequence of one-character strings.       *)
(* Python None is the string "None"; the booleans True/False stored in a   *)
(* SyncState are the strings "True"/"False" so that a dependency_layer     *)
(* read from a document may also be None.  An optional TOML key is a       *)
(* sequence of length 0 (key missing) or 1 (key present).  A Python dict   *)
(* or TOML table with computed keys is a sequence of [k, v] entries in     *)
(* insertion order with pairwise distinct keys.                            *)
(***************************************************************************)
EXTENDS Integers, Sequences, FiniteSets, TLC

(***************************************************************************)
(* Bounds                                                                  *)
(***************************************************************************)
NumWorkers == 2

\* budget of a run: every context constructed, every update or query call and
\* every injected I/O failure takes one unit
MaxOps == 4

MaxRecords == 2

(***************************************************************************)
(* Input alphabets                                                         *)
(***************************************************************************)
IdPlain == <<"a">>

IdNested == <<"a", "/", "b">>

IdDashed == <<"a", "-", "b">>

ResourceIds == {IdPlain, IdNested, IdDashed}

Hashes == {"h1", "h2"}

\* datetime values: whole seconds and microseconds (0 = none)
Datetimes == {[sec |-> 1, usec |-> 0], [sec |-> 1, usec |-> 7]}

PyBools == {"True", "False"}

(***************************************************************************)
(* Python dict / str helpers                                               *)
(***************************************************************************)
DictKeys(d) == {d[i].k : i \in DOMAIN d}

DictHas(d, key) == \E i \in DOMAIN d : d[i].k = key

DictIndex(d, key) == CHOOSE i \in DOMAIN d : d[i].k = key

\* d[key] (only used where the key is present)
DictAt(d, key) == d[DictIndex(d, key)].v

\* d[key] = val : an existing key keeps its position, a new key is appended
DictSet(d, key, val) ==
    IF DictHas(d, key)
    THEN [d EXCEPT ![DictIndex(d, key)] = [k |-> key, v |-> val]]
    ELSE Append(d, [k |-> key, v |-> val])

\* the mapping a dict denotes, order forgotten
DictAsSet(d) == {d[i] : i \in DOMAIN d}

\* str.replace(old, new) for one-character old and new
StrReplace(s, old, new) == [i \in DOMAIN s |-> IF s[i] = old THEN new ELSE s[i]]

HasChar(s, c) == \E i \in DOMAIN s : s[i] = c

(***************************************************************************)
(* ResourceSyncState, SyncState and the ISO-8601 text of a datetime        *)
(***************************************************************************)
ResourceSyncState(hash_value, sync_time) ==
    [hash_value |-> hash_value, sync_time |-> sync_time]

IsoFormatSeconds(dt) == <<dt.sec>>

\* datetime.isoformat(): the fraction is omitted when microsecond is 0
IsoFormat(dt) == IF dt.usec = 0 THEN <<dt.sec>> ELSE <<dt.sec, dt.usec>>

\* datetime.fromisoformat(): a missing fraction reads as microsecond 0
FromIsoFormat(s) == [sec |-> s[1], usec |-> IF Len(s) >= 2 THEN s[2] ELSE 0]

\* resource id -> TOML key  (line 75)
EscapeResourceId(resource_id) == StrReplace(resource_id, "/", "-")

UnescapeIdentity(resource_id_toml) == resource_id_toml

\* TOML key -> resource id  (line 116)
UnescapeResourceId(resource_id_toml) == StrReplace(resource_id_toml, "-", "/")

(***************************************************************************)
(* TOML documents.                                                         *)
(*   doc   = [sync_state |-> optional sync table,                          *)
(*            resource_sync_states |-> optional table of entries]          *)
(*   sync table = [dependency_layer |-> optional "True"/"False",           *)
(*                 extra |-> BOOLEAN]   (extra: some other key is present)  *)
(*   entry = [hash |-> optional hash, sync_time |-> optional ISO text]     *)
(***************************************************************************)
EntryTable(rss) == [hash |-> <<rss.hash_value>>, sync_time |-> <<IsoFormat(rss.sync_time)>>]

EncodeFirstOnly(d, table) ==
    IF d = <<>> THEN table
    ELSE DictSet(table, EscapeResourceId(Head(d).k), EntryTable(Head(d).v))

RECURSIVE EncodeEntries(_, _)
\* the loop of lines 66-76: later items overwrite an equal key already in table
EncodeEntries(d, table) ==
    IF d = <<>> THEN table
    ELSE EncodeEntries(Tail(d),
                       DictSet(table, EscapeResourceId(Head(d).k), EntryTable(Head(d).v)))

\* _sync_state_to_toml_document
SyncStateToTomlDocument(dependency_layer, records) ==
    [sync_state |-> <<[dependency_layer |-> <<dependency_layer>>, extra |-> FALSE]>>,
     resource_sync_states |-> <<EncodeEntries(records, <<>>)>>]

\* truth value of an optional TOML table: present and non-empty
SyncTableTruthy(opt) == opt # <<>> /\ (opt[1].dependency_layer # <<>> \/ opt[1].extra)

ResTableTruthy(opt) == opt # <<>> /\ opt[1] # <<>>

\* datetime.fromisoformat(None) raises TypeError (line 112)
EntryRaises(e) == e.sync_time = <<>>

DecodeRaises(doc) ==
    /\ SyncTableTruthy(doc.sync_state) \/ ResTableTruthy(doc.resource_sync_states)
    /\ ResTableTruthy(doc.resource_sync_states)
    /\ \E i \in DOMAIN doc.resource_sync_states[1] :
          EntryRaises(doc.resource_sync_states[1][i].v)

EntryToState(e) ==
    ResourceSyncState(IF e.hash = <<>> THEN "None" ELSE e.hash[1],
                      FromIsoFormat(e.sync_time[1]))

RECURSIVE DecodeEntries(_, _)
\* the loop of lines 108-117
DecodeEntries(table, d) ==
    IF table = <<>> THEN d
    ELSE DecodeEntries(Tail(table),
                       DictSet(d, UnescapeResourceId(Head(table).k), EntryToState(Head(table).v)))

DecodeFlagUnset(doc) ==
    IF ~(SyncTableTruthy(doc.sync_state) \/ ResTableTruthy(doc.resource_sync_states))
    THEN <<>>
    ELSE <<[dependency_layer |->
               IF SyncTableTruthy(doc.sync_state) /\ doc.sync_state[1].dependency_layer # <<>>
               THEN doc.sync_state[1].dependency_layer[1]
               ELSE "None",
            resource_sync_states |->
               IF ResTableTruthy(doc.resource_sync_states)
               THEN DecodeEntries(doc.resource_sync_states[1], <<>>)
               ELSE <<>>]>>

DecodeEmptyAsState(doc) ==
    <<[dependency_layer |->
          IF SyncTableTruthy(doc.sync_state)
          THEN (IF doc.sync_state[1].dependency_layer = <<>> THEN "None"
                ELSE doc.sync_state[1].dependency_layer[1])
          ELSE "False",
       resource_sync_states |->
          IF ResTableTruthy(doc.resource_sync_states)
          THEN DecodeEntries(doc.resource_sync_states[1], <<>>)
          ELSE <<>>]>>

\* _toml_document_to_sync_state, for a document on which it does not raise:
\* <<>> is None, <<s>> is the SyncState s (with its dict given by value)
TomlDocumentToSyncState(doc) ==
    IF doc.sync_state = <<>> /\ doc.resource_sync_states = <<>> THEN <<>>
    ELSE IF ~(SyncTableTruthy(doc.sync_state) \/ ResTableTruthy(doc.resource_sync_states))
    THEN <<>>
    ELSE <<[dependency_layer |->
               IF SyncTableTruthy(doc.sync_state)
               THEN (IF doc.sync_state[1].dependency_layer = <<>> THEN "None"
                     ELSE doc.sync_state[1].dependency_layer[1])
               ELSE "False",
            resource_sync_states |->
               IF ResTableTruthy(doc.resource_sync_states)
               THEN DecodeEntries(doc.resource_sync_states[1], <<>>)
               ELSE <<>>]>>

(***************************************************************************)
(* The state file: absent, text tomlkit cannot parse, or a TOML document   *)
(* (tomlkit.dumps / tomlkit.loads are the external serializer and keep     *)
(* the document).                                                          *)
(***************************************************************************)
NoDoc == [sync_state |-> <<>>, resource_sync_states |-> <<>>]

AbsentFile == [kind |-> "absent", doc |-> NoDoc]

GarbageFile == [kind |-> "garbage", doc |-> NoDoc]

TomlFile(doc) == [kind |-> "toml", doc |-> doc]

SyncTable(dl) == <<[dependency_layer |-> <<dl>>, extra |-> FALSE]>>

Entry(h, iso) == [hash |-> <<h>>, sync_time |-> <<iso>>]

\* documents a state file may hold when the first session starts
InitDocs ==
    { NoDoc,
      [sync_state |-> SyncTable("True"),
       resource_sync_states |-> << <<[k |-> <<"a">>, v |-> Entry("h1", <<1>>)]>> >>],
      [sync_state |-> SyncTable("False"),
       resource_sync_states |-> << <<[k |-> <<"a", "-", "b">>, v |-> Entry("h2", <<1, 7>>)]>> >>],
      [sync_state |-> <<[dependency_layer |-> <<>>, extra |-> TRUE]>>,
       resource_sync_states |-> <<>>],
      [sync_state |-> SyncTable("True"),
       resource_sync_states |->
          << <<[k |-> <<"a">>, v |-> [hash |-> <<"h1">>, sync_time |-> <<>>]]>> >>] }

InitFiles == {AbsentFile, GarbageFile} \cup {TomlFile(d) : d \in InitDocs}

BUILD_DIR == "build"

CACHE_DIR == "cache"

DEFAULT_DEPENDENCIES_DIR == "deps"

InitDirs == {{}, {BUILD_DIR, CACHE_DIR, DEFAULT_DEPENDENCIES_DIR}}

(***************************************************************************)
(* State                                                                   *)
(***************************************************************************)
VARIABLES
    file,            \* content of sync.toml
    dirs,            \* the directories that exist
    lock,            \* _lock: the thread holding it, or Free
    pc,              \* position of every thread
    current_state,   \* [dependency_layer, resource_sync_states (a dict reference)]
    previous_state,  \* <<>> (None) or <<SyncState>>
    heap,            \* the dict objects: "init" made by __init__, "loaded" by _read
    arg,             \* arguments of each worker's call in progress / last call
    ret,             \* the call that ended last and what it returned: [op, val]
    ops,             \* budget used so far (see MaxOps); it also drives the clock
    flag,            \* history: dependency_layer passed to the live context's __init__
    lastUpd,         \* history: per id, hash of the last update applied in this session
    allOk,           \* history: no update call of this session has raised
    dupId,           \* history: two update calls of this session named the same id
    carried,         \* history: the records __enter__ decoded from the file (by value)
    cleanups,        \* history: calls of _cleanup_build_folders in this session
    removed,         \* history: the directories those calls found and removed
    lastGet,         \* history: id, value and run length of the queries since the last update
    unsaved,         \* history: ids updated by calls whose write failed, since the last good write
    codec            \* state of the pure-function harness (SpecCodec, SpecDecode)

vars == <<file, dirs, lock, pc, current_state, previous_state, heap, arg, ret,
          ops, flag, lastUpd, allOk, dupId, carried, cleanups, removed,
          lastGet, unsaved, codec>>

storeVars == <<file, dirs, lock, pc, current_state, previous_state, heap, arg, ret,
               ops, flag, lastUpd, allOk, dupId, carried, cleanups, removed,
               lastGet, unsaved>>

Main == 0

Workers == 1 .. NumWorkers

Threads == {Main} \cup Workers

Free == -1

CodecIdle == [phase |-> "off", dl |-> "False", records |-> <<>>, doc |-> NoDoc,
              out |-> <<>>, id |-> <<>>, key |-> <<>>, back |-> <<>>]

NoArg == [id |-> <<>>, hash |-> "None"]

NoRet == [op |-> "none", val |-> "None"]

Returned(op, val) == [op |-> op, val |-> val]

\* the dict current_state.resource_sync_states refers to
CurrentRecords == heap[current_state.resource_sync_states]

Init ==
    /\ file \in InitFiles
    /\ dirs \in InitDirs
    /\ lock = Free
    /\ pc = [t \in Threads |-> IF t = Main THEN "none" ELSE "idle"]
    /\ current_state = [dependency_layer |-> "False", resource_sync_states |-> "init"]
    /\ previous_state = <<>>
    /\ heap = [init |-> <<>>, loaded |-> <<>>]
    /\ arg = [t \in Workers |-> NoArg]
    /\ ret = NoRet
    /\ ops = 0
    /\ flag = "False"
    /\ lastUpd = [id \in ResourceIds |-> "None"]
    /\ allOk = TRUE
    /\ dupId = FALSE
    /\ carried = <<>>
    /\ cleanups = 0
    /\ removed = {}
    /\ lastGet = <<>>
    /\ unsaved = {}
    /\ codec = CodecIdle

(***************************************************************************)
(* Building blocks of the SyncContext methods                              *)
(***************************************************************************)
AcquireNoWait(t) == lock' = t

\* "with _lock:" entry: blocks until the lock is free
Acquire(t) == lock = Free /\ lock' = t

KeepHeld == lock' = lock

\* "with _lock:" exit, on return and on exception alike
Release == lock' = Free

\* datetime.utcnow(): the clock advances with the operations begun
UtcNow == [sec |-> 2, usec |-> ops - 2]

PutReplaceAll(d, resource_id, hash_value, now) ==
    <<[k |-> resource_id, v |-> ResourceSyncState(hash_value, now)]>>

PutAppendOnly(d, resource_id, hash_value, now) ==
    IF DictHas(d, resource_id) THEN d
    ELSE Append(d, [k |-> resource_id, v |-> ResourceSyncState(hash_value, now)])

\* SyncState.update_resource_sync_state on the dict d
PutRecord(d, resource_id, hash_value, now) ==
    DictSet(d, resource_id, ResourceSyncState(hash_value, now))

GetSetsDefault(d, resource_id) ==
    IF DictHas(d, resource_id) THEN d
    ELSE Append(d, [k |-> resource_id, v |-> ResourceSyncState("None", UtcNow)])

\* the dict d after "d.get(resource_id)" of line 191: dict.get inserts nothing
AfterGet(d, resource_id) == d

\* the value get_resource_latest_sync_hash returns from the dict d
LatestHash(d, resource_id) ==
    IF DictHas(d, resource_id) THEN DictAt(d, resource_id).hash_value ELSE "None"

\* outcomes of _write: the open fails (file untouched), the write fails after
\* "w+" truncated the file (nothing or a part of the text is left), or success
WriteOutcomes == {"ok", "open_fails", "truncated", "partial"}

WrittenOnlyIfRecords(f, state, records, outcome) ==
    CASE outcome = "ok" ->
            IF records = <<>> THEN f
            ELSE TomlFile(SyncStateToTomlDocument(state.dependency_layer, records))
      [] outcome = "open_fails" -> f
      [] outcome = "truncated"  -> TomlFile(NoDoc)
      [] outcome = "partial"    -> GarbageFile

WrittenStale(f, state, records, outcome) ==
    CASE outcome = "ok"         -> f
      [] outcome = "open_fails" -> f
      [] outcome = "truncated"  -> TomlFile(NoDoc)
      [] outcome = "partial"    -> GarbageFile

\* the file after _write of the given state
Written(f, state, records, outcome) ==
    CASE outcome = "ok" ->
            TomlFile(SyncStateToTomlDocument(state.dependency_layer, records))
      [] outcome = "open_fails" -> f
      [] outcome = "truncated"  -> TomlFile(NoDoc)
      [] outcome = "partial"    -> GarbageFile

WriteSwallowed(outcome) == "ok"

\* how a call that ran _write ends: _write has no try/except, and its callers
\* (lines 156 and 173) have none either, so a failure leaves the call at once
WriteResult(outcome) == IF outcome = "ok" THEN "ok" ELSE "raised"

RolledBack(d, resource_id, outcome) ==
    IF outcome = "ok" THEN d ELSE SelectSeq(d, LAMBDA e : e.k # resource_id)

\* the dict d after line 173: whether _write returned or raised, nothing
\* undoes the assignment of line 172
AfterWrite(d, resource_id, outcome) == d

CanFail == ops < MaxOps

\* an outcome is possible if it is success or an I/O failure can still be injected
WriteAllowed(outcome) == outcome = "ok" \/ CanFail

CountFailure(outcome) ==
    ops' = IF outcome = "ok" THEN ops ELSE ops + 1

CarryWholeState(cur, prev) == [cur EXCEPT !.dependency_layer = prev.dependency_layer,
                                          !.resource_sync_states = "loaded"]

\* line 210: current_state takes the loaded dict object itself, not a copy
CarryRecords(cur, prev) == [cur EXCEPT !.resource_sync_states = "loaded"]

CleanupAlways(prev, cur) == TRUE

CleanupOnAnyPrevious(prev, cur) == prev # <<>>

\* the condition of line 149
NeedsCleanup(prev, cur) ==
    prev # <<>> /\ prev[1].dependency_layer # cur.dependency_layer

CleanupDepsOnly(d) == d \ {DEFAULT_DEPENDENCIES_DIR}

\* _cleanup_build_folders: rmtree_if_exists on each of the three directories
CleanupBuildFolders(d) == d \ {BUILD_DIR, CACHE_DIR, DEFAULT_DEPENDENCIES_DIR}

AllIdle == \A w \in Workers : pc[w] = "idle"

(***************************************************************************)
(* SyncContext.__init__                                                    *)
(***************************************************************************)
Construct(dependency_layer) ==
    /\ pc[Main] = "none"
    /\ AllIdle
    /\ ops < MaxOps
    /\ ops' = ops + 1
    /\ current_state' = [dependency_layer |-> dependency_layer,
                         resource_sync_states |-> "init"]
    /\ previous_state' = <<>>
    /\ heap' = [init |-> <<>>, loaded |-> <<>>]
    /\ pc' = [pc EXCEPT ![Main] = "constructed"]
    /\ flag' = dependency_layer
    /\ lastUpd' = [id \in ResourceIds |-> "None"]
    /\ allOk' = TRUE
    /\ dupId' = FALSE
    /\ carried' = <<>>
    /\ cleanups' = 0
    /\ removed' = {}
    /\ lastGet' = <<>>
    /\ unsaved' = {}
    /\ arg' = [t \in Workers |-> NoArg]
    /\ ret' = NoRet
    /\ UNCHANGED <<file, dirs, lock, codec>>

(***************************************************************************)
(* SyncContext.__enter__                                                   *)
(***************************************************************************)
EnterAcquire ==
    /\ pc[Main] = "constructed"
    /\ Acquire(Main)
    /\ pc' = [pc EXCEPT ![Main] = "enter_locked"]
    /\ UNCHANGED <<file, dirs, current_state, previous_state, heap, arg, ret, ops,
                   flag, lastUpd, allOk, dupId, carried, cleanups, removed, lastGet,
                   unsaved, codec>>

\* _read: open() raises OSError, which is caught
EnterReadOSError ==
    /\ pc[Main] = "enter_locked"
    /\ \/ file.kind = "absent" /\ UNCHANGED ops
       \/ file.kind # "absent" /\ CanFail /\ ops' = ops + 1
    /\ Release
    /\ pc' = [pc EXCEPT ![Main] = "enter_unlocked"]
    /\ UNCHANGED <<file, dirs, current_state, previous_state, heap, arg, ret,
                   flag, lastUpd, allOk, dupId, carried, cleanups, removed, lastGet,
                   unsaved, codec>>

\* _read: tomlkit.loads raises ParseError or the decoder raises TypeError;
\* neither is an OSError, so it leaves __enter__ through "with _lock"
EnterReadRaises ==
    /\ pc[Main] = "enter_locked"
    /\ \/ file.kind = "garbage"
       \/ file.kind = "toml" /\ DecodeRaises(file.doc)
    /\ Release
    /\ ret' = Returned("enter", "raised")
    /\ pc' = [pc EXCEPT ![Main] = "none"]
    /\ UNCHANGED <<file, dirs, current_state, previous_state, heap, arg, ops,
                   flag, lastUpd, allOk, dupId, carried, cleanups, removed, lastGet,
                   unsaved, codec>>

\* _read: the document is decoded (lines 207-210)
EnterReadLoads ==
    /\ pc[Main] = "enter_locked"
    /\ file.kind = "toml"
    /\ ~DecodeRaises(file.doc)
    /\ LET loaded == TomlDocumentToSyncState(file.doc) IN
         IF loaded = <<>>
         THEN /\ previous_state' = <<>>
              /\ UNCHANGED <<current_state, heap, carried>>
         ELSE /\ heap' = [heap EXCEPT !.loaded = loaded[1].resource_sync_states]
              /\ carried' = loaded[1].resource_sync_states
              /\ previous_state' = <<[dependency_layer |-> loaded[1].dependency_layer,
                                      resource_sync_states |-> "loaded"]>>
              /\ current_state' = CarryRecords(current_state, loaded[1])
    /\ Release
    /\ pc' = [pc EXCEPT ![Main] = "enter_unlocked"]
    /\ UNCHANGED <<file, dirs, arg, ret, ops, flag,
                   lastUpd, allOk, dupId, cleanups, removed, lastGet,
                   unsaved, codec>>

\* lines 148-152, after the lock was released
EnterFinish ==
    /\ pc[Main] = "enter_unlocked"
    /\ IF NeedsCleanup(previous_state, current_state)
       THEN /\ dirs' = CleanupBuildFolders(dirs)
            /\ cleanups' = cleanups + 1
            /\ removed' = removed \cup (dirs \ dirs')
       ELSE UNCHANGED <<dirs, cleanups, removed>>
    /\ ret' = Returned("enter", "ok")
    /\ pc' = [pc EXCEPT ![Main] = "entered"]
    /\ UNCHANGED <<file, lock, current_state, previous_state, heap, arg, ops,
                   flag, lastUpd, allOk, dupId, carried, lastGet, unsaved, codec>>

(***************************************************************************)
(* SyncContext.__exit__                                                    *)
(***************************************************************************)
ExitAcquire ==
    /\ pc[Main] = "entered"
    /\ Acquire(Main)
    /\ pc' = [pc EXCEPT ![Main] = "exit_locked"]
    /\ UNCHANGED <<file, dirs, current_state, previous_state, heap, arg, ret, ops,
                   flag, lastUpd, allOk, dupId, carried, cleanups, removed, lastGet,
                   unsaved, codec>>

ExitWrite ==
    /\ pc[Main] = "exit_locked"
    /\ \E outcome \in WriteOutcomes :
         /\ WriteAllowed(outcome)
         /\ file' = Written(file, current_state, CurrentRecords, outcome)
         /\ CountFailure(outcome)
         /\ ret' = Returned("exit", WriteResult(outcome))
         /\ unsaved' = IF outcome = "ok" THEN {} ELSE unsaved
    /\ Release
    /\ pc' = [pc EXCEPT ![Main] = "none"]
    /\ UNCHANGED <<dirs, current_state, previous_state, heap, arg,
                   flag, lastUpd, allOk, dupId, carried, cleanups, removed, lastGet, codec>>

(***************************************************************************)
(* SyncContext.update_resource_sync_state                                  *)
(***************************************************************************)
\* the call, up to and including the entry of "with _lock" (line 170)
UpdateBegin(t, resource_id, hash_value) ==
    /\ pc[t] = "idle"
    /\ pc[Main] = "entered"
    /\ ops < MaxOps
    /\ Acquire(t)
    /\ ops' = ops + 1
    /\ arg' = [arg EXCEPT ![t] = [id |-> resource_id, hash |-> hash_value]]
    /\ dupId' = (\/ dupId
                 \/ lastUpd[resource_id] # "None"
                 \/ \E u \in Workers : pc[u] \in {"upd_locked", "upd_write"}
                                        /\ arg[u].id = resource_id)
    /\ pc' = [pc EXCEPT ![t] = "upd_locked"]
    /\ UNCHANGED <<file, dirs, current_state, previous_state, heap, ret,
                   flag, lastUpd, allOk, carried, cleanups, removed, lastGet,
                   unsaved, codec>>

\* line 172
UpdateMutate(t) ==
    /\ pc[t] = "upd_locked"
    /\ heap' = [heap EXCEPT ![current_state.resource_sync_states] =
                   PutRecord(@, arg[t].id, arg[t].hash, UtcNow)]
    /\ lastUpd' = [lastUpd EXCEPT ![arg[t].id] = arg[t].hash]
    /\ lastGet' = <<>>
    /\ pc' = [pc EXCEPT ![t] = "upd_write"]
    /\ UNCHANGED <<file, dirs, lock, current_state, previous_state, arg, ret, ops,
                   flag, allOk, dupId, carried, cleanups, removed, unsaved, codec>>

\* line 173 and the end of "with _lock"
UpdateWrite(t) ==
    /\ pc[t] = "upd_write"
    /\ \E outcome \in WriteOutcomes :
         /\ WriteAllowed(outcome)
         /\ file' = Written(file, current_state, CurrentRecords, outcome)
         /\ CountFailure(outcome)
         /\ ret' = Returned("update", WriteResult(outcome))
         /\ allOk' = (allOk /\ outcome = "ok")
         /\ heap' = [heap EXCEPT ![current_state.resource_sync_states] =
                        AfterWrite(@, arg[t].id, outcome)]
         /\ unsaved' = IF outcome = "ok" THEN {} ELSE unsaved \cup {arg[t].id}
    /\ Release
    /\ arg' = [arg EXCEPT ![t] = NoArg]
    /\ pc' = [pc EXCEPT ![t] = "idle"]
    /\ UNCHANGED <<dirs, current_state, previous_state,
                   flag, lastUpd, dupId, carried, cleanups, removed, lastGet, codec>>

(***************************************************************************)
(* SyncContext.get_resource_latest_sync_hash                               *)
(***************************************************************************)
\* the call, up to and including the entry of "with _lock" (line 190)
QueryBegin(t, resource_id) ==
    /\ pc[t] = "idle"
    /\ pc[Main] = "entered"
    /\ ops < MaxOps
    /\ Acquire(t)
    /\ ops' = ops + 1
    /\ arg' = [arg EXCEPT ![t] = [id |-> resource_id, hash |-> "None"]]
    /\ pc' = [pc EXCEPT ![t] = "get_locked"]
    /\ UNCHANGED <<file, dirs, current_state, previous_state, heap, ret,
                   flag, lastUpd, allOk, dupId, carried, cleanups, removed, lastGet,
                   unsaved, codec>>

QueryRead(t) ==
    /\ pc[t] = "get_locked"
    /\ ret' = Returned("get", LatestHash(CurrentRecords, arg[t].id))
    /\ heap' = [heap EXCEPT ![current_state.resource_sync_states] =
                   AfterGet(@, arg[t].id)]
    /\ lastGet' = <<[id |-> arg[t].id, val |-> ret'.val,
                      n |-> IF lastGet # <<>> /\ lastGet[1].id = arg[t].id
                            THEN lastGet[1].n + 1 ELSE 1]>>
    /\ Release
    /\ arg' = [arg EXCEPT ![t] = NoArg]
    /\ pc' = [pc EXCEPT ![t] = "idle"]
    /\ UNCHANGED <<file, dirs, current_state, previous_state, ops,
                   flag, lastUpd, allOk, dupId, carried, cleanups, removed, unsaved,
                   codec>>

Next ==
    \/ \E dependency_layer \in PyBools : Construct(dependency_layer)
    \/ EnterAcquire
    \/ EnterReadOSError
    \/ EnterReadRaises
    \/ EnterReadLoads
    \/ EnterFinish
    \/ ExitAcquire
    \/ ExitWrite
    \/ \E t \in Workers, resource_id \in ResourceIds, hash_value \in Hashes :
          UpdateBegin(t, resource_id, hash_value)
    \/ \E t \in Workers : UpdateMutate(t)
    \/ \E t \in Workers : UpdateWrite(t)
    \/ \E t \in Workers, resource_id \in ResourceIds : QueryBegin(t, resource_id)
    \/ \E t \in Workers : QueryRead(t)

Spec == Init /\ [][Next]_vars

\* the code a thread runs inside "with _lock" (a read, a mutation, a write)
\* blocks on nothing, so a scheduled thread gets through it
LockedStep ==
    \/ EnterReadOSError \/ EnterReadRaises \/ EnterReadLoads
    \/ ExitWrite
    \/ \E t \in Workers : UpdateMutate(t) \/ UpdateWrite(t) \/ QueryRead(t)

LockedStepsFair == WF_vars(LockedStep)

\* __exit__ runs when the "with SyncContext" block ends, and a lock that is
\* free again and again is handed to the thread waiting for it
ExitFair == SF_vars(ExitAcquire)

\* the lock's fate does not depend on what is loaded: start from a file
\* that makes _read raise or from one with a state, beside standing
\* directories (a failed open is met on the way, as is an emptied file)
FairInit ==
    /\ Init
    /\ dirs = {BUILD_DIR, CACHE_DIR, DEFAULT_DEPENDENCIES_DIR}
    /\ file \in {GarbageFile,
                 TomlFile([sync_state |-> SyncTable("True"),
                           resource_sync_states |->
                              << <<[k |-> <<"a">>, v |-> Entry("h1", <<1>>)]>> >>])}

SpecFair == FairInit /\ [][Next]_vars /\ LockedStepsFair /\ ExitFair

(***************************************************************************)
(* The pure functions on their own: a SyncState (and a resource id) is     *)
(* drawn, encoded to a document, and the document is decoded again.        *)
(***************************************************************************)
RECURSIVE DictsOfLen(_)
\* all dicts with n entries (pairwise distinct ids)
DictsOfLen(n) ==
    IF n = 0 THEN {<<>>}
    ELSE {Append(d, [k |-> id, v |-> ResourceSyncState(h, dt)]) :
             d \in DictsOfLen(n - 1), id \in ResourceIds, h \in Hashes, dt \in Datetimes}

HasDistinctKeys(d) == \A i, j \in DOMAIN d : i # j => d[i].k # d[j].k

CodecDicts ==
    UNION {{d \in DictsOfLen(n) : HasDistinctKeys(d)} : n \in 0 .. MaxRecords}

CodecInit ==
    /\ file = AbsentFile
    /\ dirs = {}
    /\ lock = Free
    /\ pc = [t \in Threads |-> IF t = Main THEN "none" ELSE "idle"]
    /\ current_state = [dependency_layer |-> "False", resource_sync_states |-> "init"]
    /\ previous_state = <<>>
    /\ heap = [init |-> <<>>, loaded |-> <<>>]
    /\ arg = [t \in Workers |-> NoArg]
    /\ ret = NoRet
    /\ ops = 0
    /\ flag = "False"
    /\ lastUpd = [id \in ResourceIds |-> "None"]
    /\ allOk = TRUE
    /\ dupId = FALSE
    /\ carried = <<>>
    /\ cleanups = 0
    /\ removed = {}
    /\ lastGet = <<>>
    /\ unsaved = {}
    /\ \E dl \in PyBools, d \in CodecDicts, id \in ResourceIds :
          codec = [CodecIdle EXCEPT !.phase = "input", !.dl = dl, !.records = d, !.id = id]

\* _sync_state_to_toml_document on the drawn state; line 75 on the drawn id
CodecEncode ==
    /\ codec.phase = "input"
    /\ codec' = [codec EXCEPT !.phase = "encoded",
                              !.doc = SyncStateToTomlDocument(codec.dl, codec.records),
                              !.key = EscapeResourceId(codec.id)]
    /\ UNCHANGED storeVars

\* _toml_document_to_sync_state on that document; line 116 on that key
CodecDecode ==
    /\ codec.phase = "encoded"
    /\ ~DecodeRaises(codec.doc)
    /\ codec' = [codec EXCEPT !.phase = "decoded",
                              !.out = TomlDocumentToSyncState(codec.doc),
                              !.back = UnescapeResourceId(codec.key)]
    /\ UNCHANGED storeVars

CodecNext == CodecEncode \/ CodecDecode

SpecCodec == CodecInit /\ [][CodecNext]_vars

(***************************************************************************)
(* The decoder alone, on documents as a state file may hold them: each     *)
(* section missing, empty or filled, each entry with or without its keys   *)
(***************************************************************************)
\* the sync_state section: missing, an empty table, a table with another key
\* only, or a table with dependency_layer
GivenSyncTables ==
    {<<>>, <<[dependency_layer |-> <<>>, extra |-> FALSE]>>,
     <<[dependency_layer |-> <<>>, extra |-> TRUE]>>}
       \cup {SyncTable(dl) : dl \in PyBools}

GivenEntries ==
    {[hash |-> h, sync_time |-> st] :
        h \in {<<>>, <<"h1">>}, st \in {<<>>, << <<1>> >>, << <<1, 7>> >>}}

RECURSIVE TablesOfLen(_)
TablesOfLen(n) ==
    IF n = 0 THEN {<<>>}
    ELSE {Append(d, [k |-> key, v |-> e]) :
             d \in TablesOfLen(n - 1), key \in ResourceIds, e \in GivenEntries}

\* the resource_sync_states section: missing, or a table of up to MaxRecords entries
GivenResTables ==
    {<<>>} \cup {<<d>> : d \in UNION {{d \in TablesOfLen(n) : HasDistinctKeys(d)} :
                                         n \in 0 .. MaxRecords}}

GivenDocs ==
    {[sync_state |-> st, resource_sync_states |-> rt] :
        st \in GivenSyncTables, rt \in GivenResTables}

DecodeInit ==
    /\ file = AbsentFile
    /\ dirs = {}
    /\ lock = Free
    /\ pc = [t \in Threads |-> IF t = Main THEN "none" ELSE "idle"]
    /\ current_state = [dependency_layer |-> "False", resource_sync_states |-> "init"]
    /\ previous_state = <<>>
    /\ heap = [init |-> <<>>, loaded |-> <<>>]
    /\ arg = [t \in Workers |-> NoArg]
    /\ ret = NoRet
    /\ ops = 0
    /\ flag = "False"
    /\ lastUpd = [id \in ResourceIds |-> "None"]
    /\ allOk = TRUE
    /\ dupId = FALSE
    /\ carried = <<>>
    /\ cleanups = 0
    /\ removed = {}
    /\ lastGet = <<>>
    /\ unsaved = {}
    /\ \E doc \in GivenDocs : codec = [CodecIdle EXCEPT !.phase = "given", !.doc = doc]

\* _toml_document_to_sync_state returns
DecodeReturns ==
    /\ codec.phase = "given"
    /\ ~DecodeRaises(codec.doc)
    /\ codec' = [codec EXCEPT !.phase = "parsed",
                              !.out = TomlDocumentToSyncState(codec.doc)]
    /\ UNCHANGED storeVars

\* _toml_document_to_sync_state raises TypeError at line 112
DecodeFails ==
    /\ codec.phase = "given"
    /\ DecodeRaises(codec.doc)
    /\ codec' = [codec EXCEPT !.phase = "failed"]
    /\ UNCHANGED storeVars

DecodeNext == DecodeReturns \/ DecodeFails

SpecDecode == DecodeInit /\ [][DecodeNext]_vars

(***************************************************************************)
(* Properties                                                              *)
(***************************************************************************)

\* a fresh load of the file f yields a record keyed id with hash h
FreshLoadHas(f, id, h) ==
    /\ f.kind = "toml"
    /\ ~DecodeRaises(f.doc)
    /\ TomlDocumentToSyncState(f.doc) # <<>>
    /\ LET d == TomlDocumentToSyncState(f.doc)[1].resource_sync_states IN
         DictHas(d, id) /\ DictAt(d, id).hash_value = h

\* id contains no "-" and no other id of the dict d has the same TOML key
KeyIsItsOwn(d, id) ==
    /\ ~HasChar(id, "-")
    /\ \A k \in DictKeys(d) : k # id => EscapeResourceId(k) # EscapeResourceId(id)

\* the step in which worker t's update call returns normally
UpdateReturnsOk(t) ==
    pc[t] = "upd_write" /\ pc'[t] = "idle" /\ ret' = Returned("update", "ok")

\* C1 as stated: whenever an update(id, h) returns normally, a fresh load of
\* the state file as it then stands has a record keyed id with hash h.
C1_WriteThroughAnyId ==
    [][\A t \in Workers :
          UpdateReturnsOk(t) => FreshLoadHas(file', arg[t].id, arg[t].hash)]_vars

\* C1 amended: the same, for an id that contains no "-" and whose TOML key is
\* the key of no other id held in current_state.
C1_WriteThrough ==
    [][\A t \in Workers :
          (UpdateReturnsOk(t) /\ KeyIsItsOwn(CurrentRecords, arg[t].id))
             => FreshLoadHas(file', arg[t].id, arg[t].hash)]_vars

\* an update of a nested id has just returned normally and is in the file
C1_Witness ==
    /\ ret.op = "update" /\ ret.val = "ok"
    /\ lastUpd[IdNested] # "None"
    /\ KeyIsItsOwn(CurrentRecords, IdNested)
    /\ FreshLoadHas(file, IdNested, lastUpd[IdNested])

NoUpdateRunning == \A w \in Workers : pc[w] \notin {"upd_locked", "upd_write"}

\* all update calls of the session named distinct ids and have returned
\* normally, and __exit__ has not written yet
AllUpdatesReturned ==
    /\ pc[Main] \in {"entered", "exit_locked"}
    /\ NoUpdateRunning
    /\ allOk
    /\ ~dupId

\* C2 as stated: after concurrent updates with distinct ids have all returned,
\* a fresh load of the file has every one of those ids with the hash passed.
C2_NoLostUpdateAnyId ==
    AllUpdatesReturned =>
       \A id \in ResourceIds :
          lastUpd[id] # "None" => FreshLoadHas(file, id, lastUpd[id])

\* C2 amended: the same, for each of those ids that contains no "-" and whose
\* TOML key is the key of no other id held in current_state.
C2_NoLostUpdate ==
    AllUpdatesReturned =>
       \A id \in ResourceIds :
          (lastUpd[id] # "None" /\ KeyIsItsOwn(CurrentRecords, id))
             => FreshLoadHas(file, id, lastUpd[id])

\* two updates with distinct dash-free ids have returned and both are in the file
C2_Witness ==
    /\ AllUpdatesReturned
    /\ \A w \in Workers : pc[w] = "idle"
    /\ lastUpd[IdPlain] # "None" /\ lastUpd[IdNested] # "None"
    /\ lastUpd[IdDashed] = "None"
    /\ FreshLoadHas(file, IdPlain, lastUpd[IdPlain])
    /\ FreshLoadHas(file, IdNested, lastUpd[IdNested])

\* positions inside a "with _lock" block
LockedPcs == {"enter_locked", "exit_locked", "upd_locked", "upd_write", "get_locked"}

InLock == {t \in Threads : pc[t] \in LockedPcs}

\* C3: at most one thread is inside __enter__'s read, __exit__'s write, an
\* update's mutate-and-write or a query's read, and it is the lock holder; so
\* no update mutates while another update still has its write to do.
C3_MutualExclusion ==
    /\ Cardinality(InLock) <= 1
    /\ \A t \in InLock : lock = t
    /\ \A t, u \in Workers :
          (t # u /\ pc[t] = "upd_write") => pc[u] \notin {"upd_locked", "upd_write"}

\* an update holds the lock between its mutation and its write, after another
\* update of the session has gone through
C3_Witness ==
    \E t \in Workers :
       /\ pc[t] = "upd_write"
       /\ lock = t
       /\ \E id \in ResourceIds : id # arg[t].id /\ lastUpd[id] # "None"

\* what C4 says a query for id returns
ExpectedHash(id) ==
    IF lastUpd[id] # "None" THEN lastUpd[id]
    ELSE IF DictHas(carried, id) THEN DictAt(carried, id).hash_value
    ELSE "None"

\* C4: a query for id returns the hash of the session's latest update of id if
\* there is one, else the hash of the record for id loaded at __enter__ if
\* there is one, else None.  (An update counts once its call has ended,
\* whether its write succeeded or not.)
C4_LatestHash ==
    [][\A t \in Workers :
          (pc[t] = "get_locked" /\ pc'[t] = "idle")
             => ret' = Returned("get", ExpectedHash(arg[t].id))]_vars

\* a query has returned the hash of an update that replaced a carried record
C4_Witness ==
    /\ ret.op = "get"
    /\ ret.val \in Hashes
    /\ \E id \in ResourceIds :
          /\ lastUpd[id] = ret.val
          /\ DictHas(carried, id)
          /\ DictAt(carried, id).hash_value # ret.val

\* the step in which __enter__ returns
EnterReturns == pc[Main] = "enter_unlocked" /\ pc'[Main] = "entered"

\* C5: when __enter__ returns in a session with flag False whose loaded
\* previous state has dependency_layer True, build_dir and cache_dir do not
\* exist and every record of the file is returned by a query with its hash.
C5_ModeSwitchCleanup ==
    [][(/\ EnterReturns
        /\ flag = "False"
        /\ previous_state # <<>>
        /\ previous_state[1].dependency_layer = "True")
       => /\ BUILD_DIR \notin dirs'
          /\ CACHE_DIR \notin dirs'
          /\ file.kind = "toml"
          /\ \A e \in DictAsSet(TomlDocumentToSyncState(file.doc)[1].resource_sync_states) :
                LatestHash(heap'[current_state'.resource_sync_states], e.k)
                   = e.v.hash_value]_vars

\* such a session has started: the directories were there and are gone, the
\* record of the file is in current_state
C5_Witness ==
    /\ pc[Main] = "entered"
    /\ flag = "False"
    /\ previous_state # <<>>
    /\ previous_state[1].dependency_layer = "True"
    /\ {BUILD_DIR, CACHE_DIR} \subseteq removed
    /\ dirs = {}
    /\ CurrentRecords # <<>>
    /\ LatestHash(CurrentRecords, IdPlain) = "h1"

\* __enter__ was the last call to end, no call is in progress
JustEntered ==
    /\ pc[Main] = "entered"
    /\ ret = Returned("enter", "ok")
    /\ \A w \in Workers : pc[w] = "idle"

\* C6: when __enter__ has returned and there is no state file, previous_state
\* is None, current_state has no records and no cleanup was invoked.
C6_ColdStart ==
    (JustEntered /\ file.kind = "absent")
       => /\ previous_state = <<>>
          /\ CurrentRecords = <<>>
          /\ cleanups = 0
          /\ removed = {}

\* a cold start with the dependency layer on and the directories in place
C6_Witness ==
    /\ JustEntered
    /\ file.kind = "absent"
    /\ flag = "True"
    /\ dirs = {BUILD_DIR, CACHE_DIR, DEFAULT_DEPENDENCIES_DIR}

\* C7: cleanup is invoked only by the step in which __enter__ returns, once,
\* and only if a previous state was loaded whose flag differs from the
\* session's; no other step removes a directory; a session whose loaded
\* previous state has the session's flag has invoked no cleanup.
C7_CleanupOnlyAtStart ==
    /\ [](/\ cleanups <= 1
          /\ (pc[Main] = "entered" /\ previous_state # <<>>
                 /\ previous_state[1].dependency_layer = flag) => cleanups = 0)
    /\ [][(cleanups' # cleanups \/ dirs' # dirs \/ removed' # removed)
            => \/ /\ pc[Main] = "none" /\ pc'[Main] = "constructed"
                  /\ cleanups' = 0 /\ removed' = {} /\ dirs' = dirs
               \/ /\ EnterReturns
                  /\ previous_state # <<>>
                  /\ previous_state[1].dependency_layer # flag
                  /\ cleanups = 0 /\ cleanups' = 1]_vars

\* a second session of the run, started with the other flag, has cleaned up:
\* its previous state holds a record written by the first session
C7_Witness ==
    /\ pc[Main] = "entered"
    /\ cleanups = 1
    /\ previous_state # <<>>
    /\ previous_state[1].dependency_layer \in PyBools \ {flag}
    /\ \E i \in DOMAIN carried : carried[i].v.sync_time.sec = 2

\* C8: current_state.dependency_layer is always the flag given to __init__,
\* and every document written records that flag.
C8_FlagNotCarried ==
    /\ [](current_state.dependency_layer = flag)
    /\ [][(file' # file /\ file'.kind = "toml" /\ file'.doc # NoDoc)
             => file'.doc.sync_state = SyncTable(flag)]_vars

\* a session that loaded a state with the other flag has written the file
C8_Witness ==
    /\ previous_state # <<>>
    /\ previous_state[1].dependency_layer \in PyBools \ {flag}
    /\ ret.op \in {"update", "exit"} /\ ret.val = "ok"
    /\ file.kind = "toml"
    /\ file.doc.sync_state = SyncTable(flag)

\* C9 as stated: decode(encode(S)) has exactly the records of S.
C9_RoundTripAnyId ==
    codec.phase = "decoded"
       => /\ codec.out # <<>>
          /\ DictAsSet(codec.out[1].resource_sync_states) = DictAsSet(codec.records)

\* C9 amended: the same, for a state S none of whose resource ids contains "-".
C9_RoundTrip ==
    (codec.phase = "decoded" /\ \A k \in DictKeys(codec.records) : ~HasChar(k, "-"))
       => /\ codec.out # <<>>
          /\ DictAsSet(codec.out[1].resource_sync_states) = DictAsSet(codec.records)

\* a state with a nested id and a timestamp with microseconds went round
C9_Witness ==
    /\ codec.phase = "decoded"
    /\ \A k \in DictKeys(codec.records) : ~HasChar(k, "-")
    /\ \E i \in DOMAIN codec.records :
          codec.records[i].k = IdNested /\ codec.records[i].v.sync_time.usec # 0
    /\ Len(codec.records) = 2
    /\ codec.out # <<>>
    /\ DictAsSet(codec.out[1].resource_sync_states) = DictAsSet(codec.records)

\* C10 as stated: unescape(escape(id)) = id for every id.
C10_EscapeBijectionAnyId ==
    codec.phase = "decoded" => codec.back = codec.id

\* C10 amended: unescape(escape(id)) = id for every id that contains no "-".
C10_EscapeBijection ==
    (codec.phase = "decoded" /\ ~HasChar(codec.id, "-")) => codec.back = codec.id

\* a nested id was escaped to a different key and came back
C10_Witness ==
    /\ codec.phase = "decoded"
    /\ codec.id = IdNested
    /\ codec.key # codec.id
    /\ codec.back = codec.id

\* a step of worker t's get_resource_latest_sync_hash call
QueryStep(t) ==
    \/ pc[t] = "idle" /\ pc'[t] = "get_locked"
    \/ pc[t] = "get_locked" /\ pc'[t] = "idle"

\* C11: a query changes neither current_state, previous_state (and the dicts
\* they refer to) nor the state file, and a query for the id of the query
\* before it, with no update in between, returns the same value.
C11_QueryReadOnly ==
    [][\A t \in Workers :
          QueryStep(t) =>
             /\ current_state' = current_state
             /\ previous_state' = previous_state
             /\ heap' = heap
             /\ file' = file
             /\ (pc[t] = "get_locked" /\ lastGet # <<>> /\ lastGet[1].id = arg[t].id)
                   => ret'.val = lastGet[1].val]_vars

\* two queries in a row for one id have returned the same hash
C11_Witness ==
    /\ lastGet # <<>>
    /\ lastGet[1].n >= 2
    /\ lastGet[1].val \in Hashes
    /\ ret = Returned("get", lastGet[1].val)

\* the step in which __exit__ returns normally
ExitReturnsOk ==
    pc[Main] = "exit_locked" /\ pc'[Main] = "none" /\ ret' = Returned("exit", "ok")

\* C12: whenever __exit__ returns normally the state file exists and holds
\* exactly the encoding of current_state: the session's flag, and one entry
\* under the escaped key of every record of current_state.
C12_StopPersists ==
    [][ExitReturnsOk =>
          /\ file'.kind = "toml"
          /\ file'.doc = SyncStateToTomlDocument(flag, CurrentRecords)
          /\ file'.doc.sync_state = SyncTable(flag)
          /\ DictKeys(file'.doc.resource_sync_states[1])
                = {EscapeResourceId(k) : k \in DictKeys(CurrentRecords)}]_vars

\* __exit__ has returned normally in a session that loaded nothing and made
\* no update, and the file holds the encoding of the empty state
C12_Witness ==
    /\ pc[Main] = "none"
    /\ ret = Returned("exit", "ok")
    /\ previous_state = <<>>
    /\ \A id \in ResourceIds : lastUpd[id] = "None"
    /\ CurrentRecords = <<>>
    /\ file = TomlFile(SyncStateToTomlDocument(flag, <<>>))

\* the step in which _read ends, with or without an exception
ReadStep == pc[Main] = "enter_locked" /\ pc'[Main] # "enter_locked"

\* a document neither of whose sections holds anything
EmptyDoc(doc) ==
    ~SyncTableTruthy(doc.sync_state) /\ ~ResTableTruthy(doc.resource_sync_states)

\* C13: when the file is absent, cannot be opened or read, or holds a document
\* with nothing in either section, _read ends without an exception, with
\* previous_state None and no record in current_state; and __enter__ with
\* previous_state None returns normally, removes no directory and leaves
\* current_state without records.
C13_AbsentIsNotAnError ==
    [][/\ (/\ ReadStep
           /\ \/ file.kind = "absent"
              \/ ops' # ops
              \/ file.kind = "toml" /\ EmptyDoc(file.doc))
          => /\ pc'[Main] = "enter_unlocked"
             /\ previous_state' = <<>>
             /\ CurrentRecords' = <<>>
       /\ (EnterReturns /\ previous_state = <<>>)
          => /\ ret' = Returned("enter", "ok")
             /\ cleanups' = 0
             /\ dirs' = dirs
             /\ CurrentRecords' = <<>>]_vars

\* __enter__ has returned normally, with nothing loaded and nothing removed,
\* although the file holds records: it could not be read
C13_Witness ==
    /\ pc[Main] = "entered"
    /\ ret = Returned("enter", "ok")
    /\ previous_state = <<>>
    /\ file.kind = "toml"
    /\ ResTableTruthy(file.doc.resource_sync_states)
    /\ ~DecodeRaises(file.doc)
    /\ file.doc.sync_state # SyncTable(flag)
    /\ CurrentRecords = <<>>
    /\ dirs = {BUILD_DIR, CACHE_DIR, DEFAULT_DEPENDENCIES_DIR}

\* C14: whatever the state file holds, _read ends without an exception and
\* __enter__ goes on to return normally.
C14_MalformedNeverRaises ==
    [][ReadStep => (pc'[Main] = "enter_unlocked" /\ ret'.val # "raised")]_vars

\* what a failed _write can leave: the file as it was, or truncated by "w+"
\* with nothing or a part of the text in it
AfterFailedWrite(f) == {f, TomlFile(NoDoc), GarbageFile}

\* C15: when _write fails in an update call or in __exit__, that same step
\* ends the call with the error raised to the caller; the call makes no
\* further write, so the file is left as the failed attempt left it.
C15_WriteFailurePropagates ==
    [][/\ \A t \in Workers :
             (pc[t] = "upd_write" /\ pc'[t] # "upd_write" /\ ops' # ops)
                => /\ pc'[t] = "idle"
                   /\ ret' = Returned("update", "raised")
                   /\ file' \in AfterFailedWrite(file)
       /\ (pc[Main] = "exit_locked" /\ pc'[Main] # "exit_locked" /\ ops' # ops)
             => /\ pc'[Main] = "none"
                /\ ret' = Returned("exit", "raised")
                /\ file' \in AfterFailedWrite(file)]_vars

\* an update call has ended with the error of a write that failed part-way
C15_Witness ==
    /\ ret = Returned("update", "raised")
    /\ AllIdle
    /\ lock = Free
    /\ ~allOk
    /\ file = GarbageFile
    /\ \E id \in ResourceIds : lastUpd[id] # "None"

\* the step in which a new SyncContext is constructed
ConstructStep == pc[Main] = "none" /\ pc'[Main] = "constructed"

\* C16: once __enter__ has loaded previous_state, no later step of the
\* context changes its dependency_layer or the records it holds; and a
\* context that loaded none keeps previous_state None.
C16_PreviousIsSnapshot ==
    [][/\ (previous_state # <<>> /\ ~ConstructStep)
          => /\ previous_state' = previous_state
             /\ heap'[previous_state[1].resource_sync_states]
                   = heap[previous_state[1].resource_sync_states]
       /\ (previous_state = <<>> /\ pc[Main] \in {"enter_unlocked", "entered", "exit_locked"})
          => previous_state' = <<>>]_vars

\* the ids of the entries of an optional resource_sync_states section
LoadedIds(opt) == {UnescapeResourceId(k) : k \in DictKeys(opt[1])}

\* C17 as stated: a document without sync_state decodes to flag False and
\* the records present; one without resource_sync_states to a state with no
\* records; and a document decodes to None only when both sections are missing.
C17_DecodeDefensiveAsStated ==
    codec.phase = "parsed" =>
       LET doc == codec.doc
           out == codec.out
       IN  /\ (doc.sync_state = <<>> /\ doc.resource_sync_states # <<>>)
                 => /\ out # <<>>
                    /\ out[1].dependency_layer = "False"
                    /\ DictKeys(out[1].resource_sync_states)
                          = LoadedIds(doc.resource_sync_states)
           /\ (doc.resource_sync_states = <<>> /\ doc.sync_state # <<>>)
                 => (out # <<>> /\ out[1].resource_sync_states = <<>>)
           /\ out = <<>> <=> (doc.sync_state = <<>> /\ doc.resource_sync_states = <<>>)

\* C17 amended: whenever the decoder returns, a document without sync_state
\* and with at least one resource entry decodes to flag False and the records
\* present; one without resource_sync_states and with a non-empty sync_state
\* to a state with no records; and a document decodes to None exactly when
\* each of its sections is missing or empty.
C17_DecodeDefensive ==
    codec.phase = "parsed" =>
       LET doc == codec.doc
           out == codec.out
       IN  /\ (doc.sync_state = <<>> /\ ResTableTruthy(doc.resource_sync_states))
                 => /\ out # <<>>
                    /\ out[1].dependency_layer = "False"
                    /\ DictKeys(out[1].resource_sync_states)
                          = LoadedIds(doc.resource_sync_states)
           /\ (doc.resource_sync_states = <<>> /\ SyncTableTruthy(doc.sync_state))
                 => (out # <<>> /\ out[1].resource_sync_states = <<>>)
           /\ out = <<>> <=> EmptyDoc(doc)

\* a document whose two sections are present and empty was decoded to None
C17_Witness ==
    /\ codec.phase = "parsed"
    /\ codec.doc.sync_state = <<[dependency_layer |-> <<>>, extra |-> FALSE]>>
    /\ codec.doc.resource_sync_states = << <<>> >>
    /\ codec.out = <<>>

\* a step of worker t's update_resource_sync_state call
UpdateStep(t) ==
    \/ pc[t] = "idle" /\ pc'[t] = "upd_locked"
    \/ pc[t] = "upd_locked" /\ pc'[t] = "upd_write"
    \/ pc[t] = "upd_write" /\ pc'[t] = "idle"

\* C18: an update of id leaves every record of current_state under another
\* id as it was (present or not, hash and timestamp), and changes neither
\* current_state's flag, previous_state's flag nor the directories.
C18_UpdateFrame ==
    [][\A t \in Workers :
          UpdateStep(t) =>
             LET id == IF pc[t] = "idle" THEN arg'[t].id ELSE arg[t].id IN
             /\ \A k \in ResourceIds \ {id} :
                   /\ DictHas(CurrentRecords', k) <=> DictHas(CurrentRecords, k)
                   /\ DictHas(CurrentRecords, k)
                         => DictAt(CurrentRecords', k) = DictAt(CurrentRecords, k)
             /\ current_state'.dependency_layer = current_state.dependency_layer
             /\ current_state'.dependency_layer = flag
             /\ (previous_state' = <<>>) <=> (previous_state = <<>>)
             /\ previous_state # <<>>
                   => previous_state'[1].dependency_layer = previous_state[1].dependency_layer
             /\ dirs' = dirs]_vars

\* an update has ended beside a carried record of another id, which still
\* has the hash and timestamp it was loaded with, and the directories stand
C18_Witness ==
    /\ ret.op = "update"
    /\ AllIdle
    /\ Len(CurrentRecords) = 2
    /\ \E id, k \in ResourceIds :
          /\ k # id
          /\ lastUpd[id] # "None"
          /\ lastUpd[k] = "None"
          /\ DictHas(carried, k)
          /\ DictHas(CurrentRecords, k)
          /\ DictAt(CurrentRecords, k) = DictAt(carried, k)
    /\ dirs = {BUILD_DIR, CACHE_DIR, DEFAULT_DEPENDENCIES_DIR}

\* C19: the lock does not stay held: a held lock is released, the step that
\* ends a thread's locked section (normally or with an exception) leaves the
\* lock free, __exit__ waiting for the lock behind the workers gets it, and
\* the directories are removed only while the lock is free.
C19_LockNeverLeftHeld ==
    /\ [](lock # Free => <>(lock = Free))
    /\ [](pc[Main] = "entered" => <>(pc[Main] = "exit_locked"))
    /\ [][/\ \A t \in Threads :
                (pc[t] \in LockedPcs /\ pc'[t] \notin LockedPcs) => lock' = Free
          /\ (dirs' # dirs \/ EnterReturns) => (lock = Free /\ lock' = Free)]_vars

\* the lock is free after an __enter__ whose read raised, in a context
\* constructed after an earlier one had its turn
C19_Witness ==
    /\ lock = Free
    /\ InLock = {}
    /\ pc[Main] = "none"
    /\ ret = Returned("enter", "raised")
    /\ ops > 1

\* the file f is a document with the record rss under the escaped key of id
DocHas(f, id, rss) ==
    /\ f.kind = "toml"
    /\ f.doc.resource_sync_states # <<>>
    /\ DictHas(f.doc.resource_sync_states[1], EscapeResourceId(id))
    /\ DictAt(f.doc.resource_sync_states[1], EscapeResourceId(id)) = EntryTable(rss)

\* no other id of the dict d has the TOML key of id
SoleKey(d, id) ==
    \A k \in DictKeys(d) : k # id => EscapeResourceId(k) # EscapeResourceId(id)

\* the step in which worker t's update call ends with the error of its write
UpdateRaises(t) ==
    pc[t] = "upd_write" /\ pc'[t] = "idle" /\ ret' = Returned("update", "raised")

\* the step in which an update call or __exit__ returns normally
WriteReturnsOk == ExitReturnsOk \/ \E t \in Workers : UpdateReturnsOk(t)

\* what C20 says of the failing call and of the queries after it: the record
\* stays in current_state while the file has none of it, and a query for its
\* id returns the hash
KeptInMemory ==
    /\ \A t \in Workers :
          UpdateRaises(t) =>
             /\ DictHas(CurrentRecords', arg[t].id)
             /\ DictAt(CurrentRecords', arg[t].id) = DictAt(CurrentRecords, arg[t].id)
             /\ DictAt(CurrentRecords', arg[t].id).hash_value = arg[t].hash
             /\ ~DocHas(file', arg[t].id, DictAt(CurrentRecords', arg[t].id))
    /\ \A t \in Workers :
          (pc[t] = "get_locked" /\ pc'[t] = "idle" /\ arg[t].id \in unsaved)
             => ret' = Returned("get", lastUpd[arg[t].id])

\* C20 as stated: an update whose write fails is not rolled back, and the
\* next update or __exit__ that returns normally has the record in the file.
C20_NoRollbackAnyId ==
    [][/\ KeptInMemory
       /\ WriteReturnsOk
             => \A id \in unsaved : DocHas(file', id, DictAt(CurrentRecords', id))]_vars

\* C20 amended: the same, the file having the record when no other id held in
\* current_state has the record's escaped key.
C20_NoRollback ==
    [][/\ KeptInMemory
       /\ WriteReturnsOk
             => \A id \in unsaved :
                   SoleKey(CurrentRecords', id)
                      => DocHas(file', id, DictAt(CurrentRecords', id))]_vars

\* after an update of a nested id whose write failed, a query has returned
\* its hash and __exit__ has put the record into the file
C20_Witness ==
    /\ ret = Returned("exit", "ok")
    /\ ~allOk
    /\ unsaved = {}
    /\ lastGet # <<>>
    /\ lastGet[1].id = IdNested
    /\ lastGet[1].val = lastUpd[IdNested]
    /\ lastUpd[IdNested] # "None"
    /\ DocHas(file, IdNested, DictAt(CurrentRecords, IdNested))

====
